---------------------------- MODULE Spec2Model ----------------------------
(***************************************************************************)
(* The Service Catalogue client of hmpps-sre-python-lib                    *)
(* (src/src/hmpps/clients/service_catalogue.py): the retrying fetcher      *)
(* _request_json_with_retry, the page aggregator get_with_retry, and the   *)
(* scheduled-job reporter update_scheduled_job built on them.              *)
(*                                                                         *)
(* Strings (URLs) are sequences of tokens; a token is a run of ordinary    *)
(* characters or one of the delimiters "/", "?", "&", "=".  Durations are  *)
(* in milliseconds so that 0.5 s is the integer 500.                       *)
(***************************************************************************)
EXTENDS Integers, Sequences, FiniteSets, TLC

VARIABLES
  call,        \* the public entry point that was invoked
  args,        \* the arguments of that call which the model follows
  pc,          \* position of the single thread of control
  server,      \* the remote collection: page count, records per page, documentId kind
  self_url,    \* self.url
  max_retries, \* the max_retries argument of the fetcher / aggregator
  base_url,    \* get_with_retry: base_url
  json_data,   \* get_with_retry: json_data
  page_count,  \* get_with_retry: page_count (0 until page 1 has been processed)
  p,           \* get_with_retry: page being fetched (1 = first page)
  url,         \* _request_json_with_retry: url
  attempt,     \* _request_json_with_retry: attempt
  last_err,    \* _request_json_with_retry: last_err
  resp,        \* what the latest session.get produced (response or exception)
  fetched,     \* how the latest _request_json_with_retry call ended
  trace,       \* the session.get / time.sleep calls of the current fetcher call
  visited,     \* the page each fetcher call so far was made for, in call order
  served,      \* how each finished fetcher call ended: a body shape or "exhausted"
  sent,        \* every session.post / put / delete issued, with its outcome
  updateRet,   \* what self.update returned ("none" when it was not called)
  returned,    \* the value the entry point returned / raised
  gets,        \* how many session.get calls the current call has made
  client,      \* the fields of the client other than self.url
  calls        \* the calls made on the client so far: how many, and the one
               \* before the current call with what it returned

vars == <<call, args, pc, server, self_url, max_retries, base_url, json_data, page_count,
          p, url, attempt, last_err, resp, fetched, trace, visited, served,
          sent, updateRet, returned, gets, client, calls>>

-----------------------------------------------------------------------------
(* Bounds of the model *)

MaxRetries == 4      \* largest max_retries of a direct fetcher call
MaxAggRetries == 2   \* largest max_retries of a get_with_retry call
MaxPages == 3        \* largest pageCount of the remote collection
MaxPerPage == 2      \* most records on one page
MaxJobPages == 2     \* largest pageCount of a filtered (get_record) lookup
MaxParams == 2       \* most query parameters of a url given to _set_page
MaxEnvs == 2         \* most entries of a component's envs list
MaxNegRetries == 1   \* how far below 0 a max_retries argument goes
MaxCalls == 2        \* most calls made one after the other on one client

(* Program constants *)

BackoffBaseMs == 500
DefaultMaxRetries == 3

-----------------------------------------------------------------------------
(* String helpers: str.split, str.lstrip, str.rstrip, str(int) *)

RECURSIVE IndexOf(_, _, _)
IndexOf(s, c, i) ==
  IF i > Len(s) THEN 0
  ELSE IF s[i] = c THEN i
  ELSE IndexOf(s, c, i + 1)

\* s.find(c) + 1: position of the first c in s, 0 when there is none
Find(s, c) == IndexOf(s, c, 1)

RECURSIVE Split(_, _)
\* s.split(c)
Split(s, c) ==
  LET i == Find(s, c) IN
  IF i = 0 THEN <<s>>
  ELSE <<SubSeq(s, 1, i - 1)>> \o Split(SubSeq(s, i + 1, Len(s)), c)

\* s.split(c, 1)
SplitOnce(s, c) ==
  LET i == Find(s, c) IN
  IF i = 0 THEN <<s>>
  ELSE <<SubSeq(s, 1, i - 1), SubSeq(s, i + 1, Len(s))>>

RECURSIVE Rstrip(_, _)
Rstrip(s, c) ==
  IF Len(s) > 0 /\ s[Len(s)] = c THEN Rstrip(SubSeq(s, 1, Len(s) - 1), c) ELSE s

RECURSIVE Lstrip(_, _)
Lstrip(s, c) ==
  IF Len(s) > 0 /\ s[1] = c THEN Lstrip(Tail(s), c) ELSE s

Digits == <<"0", "1", "2", "3", "4", "5", "6", "7", "8", "9">>

RECURSIVE Str(_)
\* str(n) for n >= 0, one token per digit
Str(n) ==
  IF n < 10 THEN <<Digits[n + 1]>>
  ELSE Str(n \div 10) \o <<Digits[(n % 10) + 1]>>

RECURSIVE ParseInt(_, _)
\* the number a digit string denotes (acc is the value read so far)
ParseInt(s, acc) ==
  IF s = <<>> THEN acc
  ELSE ParseInt(Tail(s), 10 * acc + (CHOOSE d \in 0..9 : Digits[d + 1] = Head(s)))

IsNumber(s) == s # <<>> /\ \A i \in 1..Len(s) : \E d \in 1..10 : Digits[d] = s[i]

-----------------------------------------------------------------------------
(* URL helpers, service_catalogue.py lines 18-29 *)

\* urllib.parse.unquote on one token: the percent-escapes a token can carry
Unquote(t) ==
  CASE t = "pagination%5Bpage%5D" -> "pagination[page]"
    [] t = "filters%5Bname%5D" -> "filters[name]"
    [] t = "filters%5Bname%5D%5B%24eq%5D" -> "filters[name][$eq]"
    [] t = "amp%3B" -> "amp;"
    [] t = "%3D" -> "="
    [] OTHER -> t

\* urllib.parse.quote_plus on one token
QuotePlus(t) ==
  CASE t = "pagination[page]" -> "pagination%5Bpage%5D"
    [] t = "filters[name]" -> "filters%5Bname%5D"
    [] t = "filters[name][$eq]" -> "filters%5Bname%5D%5B%24eq%5D"
    [] t = "amp;" -> "amp%3B"
    [] t = "=" -> "%3D"
    [] OTHER -> t

MapSeq(s, Op(_)) == [i \in 1..Len(s) |-> Op(s[i])]

\* urlparse(url): the part before the first "?" and the query after it
UrlPath(u) == SplitOnce(u, "?")[1]
UrlQuery(u) == IF Find(u, "?") = 0 THEN <<>> ELSE SplitOnce(u, "?")[2]

RECURSIVE QslPairs(_)
\* parse_qsl(query, keep_blank_values=True) over the "&"-separated fields
QslPairs(fields) ==
  IF fields = <<>> THEN <<>>
  ELSE LET f == Head(fields)
           nv == SplitOnce(f, "=")
           k == MapSeq(nv[1], Unquote)
           v == IF Len(nv) = 2 THEN MapSeq(nv[2], Unquote) ELSE <<>>
       IN IF f = <<>> THEN QslPairs(Tail(fields))
          ELSE <<[k |-> k, v |-> v]>> \o QslPairs(Tail(fields))

ParseQsl(query) == IF query = <<>> THEN <<>> ELSE QslPairs(Split(query, "&"))

\* d[k] = v on an insertion-ordered dict held as a sequence of pairs
DictSet(d, k, v) ==
  IF \E i \in 1..Len(d) : d[i].k = k
  THEN [i \in 1..Len(d) |-> IF d[i].k = k THEN [k |-> k, v |-> v] ELSE d[i]]
  ELSE Append(d, [k |-> k, v |-> v])

RECURSIVE Dict(_)
\* dict(pairs): a repeated key keeps its first position and its last value
Dict(pairs) ==
  IF pairs = <<>> THEN <<>>
  ELSE LET q == pairs[Len(pairs)]
       IN DictSet(Dict(SubSeq(pairs, 1, Len(pairs) - 1)), q.k, q.v)

RECURSIVE UrlEncode(_)
\* urlencode(query, doseq=True)
UrlEncode(d) ==
  IF d = <<>> THEN <<>>
  ELSE LET kv == MapSeq(d[1].k, QuotePlus) \o <<"=">> \o MapSeq(d[1].v, QuotePlus)
       IN IF Len(d) = 1 THEN kv ELSE kv \o <<"&">> \o UrlEncode(Tail(d))

PageKey == <<"pagination[page]">>

SetPageIgnored(u, page) == u

\* _set_page(url, page)
SetPage(u, page) ==
  LET query == DictSet(Dict(ParseQsl(UrlQuery(u))), PageKey, Str(page))
      new_query == UrlEncode(query)
  IN UrlPath(u) \o <<"?">> \o new_query

\* _basename(url)
Basename(u) == SplitOnce(u, "?")[1]

\* The page the catalogue serves for a request: its pagination[page]
\* parameter, page 1 when there is none
PageOf(u) ==
  LET d == Dict(ParseQsl(UrlQuery(u)))
  IN IF \E i \in 1..Len(d) : d[i].k = PageKey /\ IsNumber(d[i].v)
     THEN ParseInt((CHOOSE q \in {d[i] : i \in 1..Len(d)} : q.k = PageKey).v, 0)
     ELSE 1

\* A direct call _set_page(base_url, p): the result is what is returned
ApplySetPage ==
  /\ pc = "call" /\ call = "_set_page"
  /\ returned' = [kind |-> "value", value |-> SetPage(base_url, p)]
  /\ pc' = "done"
  /\ UNCHANGED <<client, calls, gets, call, args, server, self_url, max_retries, base_url, json_data,
                 page_count, p, url, attempt, last_err, resp, fetched, trace,
                 visited, served, sent, updateRet>>

-----------------------------------------------------------------------------
(* The remote catalogue and the requests library *)

\* A JSON object without members
EmptyObj == [x \in {} |-> x]

\* JSON values whose Python type the code depends on
JList(v) == [type |-> "list", value |-> v]
JDict(v) == [type |-> "dict", value |-> v]
JNull == [type |-> "NoneType", value |-> <<>>]

\* The j-th record of page n of the collection
Record(n, j) ==
  CASE server.doc = "present" -> [id |-> <<n, j>>, documentId |-> "doc"]
    [] server.doc = "empty" -> [id |-> <<n, j>>, documentId |-> ""]
    [] OTHER -> [id |-> <<n, j>>]

\* The data array of page n: perPage records on each of the pageCount pages
PageData(n) ==
  IF n \in 1..server.pageCount THEN [j \in 1..server.perPage |-> Record(n, j)]
  ELSE <<>>

Shapes == {"full", "noPageCount", "noPage", "noPagination", "noMeta", "noData"}

\* The response envelope for page n; every shape but "full" lacks one member
Envelope(n, shape) ==
  LET full == [page |-> n, pageCount |-> server.pageCount] IN
  CASE shape = "full" -> [data |-> PageData(n), meta |-> [pagination |-> full]]
    [] shape = "noPageCount" ->
         [data |-> PageData(n), meta |-> [pagination |-> [page |-> n]]]
    [] shape = "noPage" ->
         [data |-> PageData(n),
          meta |-> [pagination |-> [pageCount |-> server.pageCount]]]
    [] shape = "noPagination" -> [data |-> PageData(n), meta |-> EmptyObj]
    [] shape = "noMeta" -> [data |-> PageData(n)]
    [] shape = "noData" -> [meta |-> [pagination |-> full]]

Statuses == {200, 304, 404}

\* What one session.get can produce: a transport exception (a
\* requests.RequestException), or a response with a status and a body that
\* either parses as JSON or does not
Outcomes(u) ==
  {[kind |-> "exception", status |-> 0, parses |-> FALSE, shape |-> "none",
    body |-> EmptyObj]}
  \cup {[kind |-> "response", status |-> s, parses |-> FALSE, shape |-> "none",
         body |-> EmptyObj] : s \in Statuses}
  \cup {[kind |-> "response", status |-> s, parses |-> TRUE, shape |-> shape,
         body |-> Envelope(PageOf(u), shape)] : s \in Statuses, shape \in Shapes}

\* A url of one record, <collection>/<id>: three "/" in its path
IsRecordUrl(u) ==
  LET path == UrlPath(u)
  IN Cardinality({i \in DOMAIN path : path[i] = "/"}) = 3

SingleShapes ==
  {"object", "emptyObject", "array", "null", "noData", "listBody"}

\* The body served for one record; every shape but "object" and
\* "emptyObject" has something else than an object as its data
SingleBody(shape) ==
  CASE shape = "object" -> JDict([data |-> JDict(Record(1, 1))])
    [] shape = "emptyObject" -> JDict([data |-> JDict(EmptyObj)])
    [] shape = "array" -> JDict([data |-> JList(<<Record(1, 1)>>)])
    [] shape = "null" -> JDict([data |-> JNull])
    [] shape = "noData" -> JDict(EmptyObj)
    [] shape = "listBody" -> JList(<<>>)

\* What one session.get of a record url can produce
SingleOutcomes ==
  {[kind |-> "exception", status |-> 0, parses |-> FALSE, shape |-> "none",
    body |-> EmptyObj]}
  \cup {[kind |-> "response", status |-> s, parses |-> FALSE, shape |-> "none",
         body |-> EmptyObj] : s \in Statuses}
  \cup {[kind |-> "response", status |-> s, parses |-> TRUE, shape |-> shape,
         body |-> SingleBody(shape)] : s \in Statuses, shape \in SingleShapes}

\* What one session.get of url u can produce
Responses(u) == IF IsRecordUrl(u) THEN SingleOutcomes ELSE Outcomes(u)

\* requests.Response.raise_for_status raises HTTPError for 4xx and 5xx
\* statuses only; 1xx and 3xx responses pass it like 2xx ones
RaisesForStatus(s) == 400 <= s /\ s < 600

\* Lines 126-128 complete without raising: the attempt returns resp.json()
Accepted(o) ==
  /\ o.kind = "response"
  /\ ~RaisesForStatus(o.status)
  /\ o.parses

\* The exception lines 126-128 raise for an outcome that is not accepted
Raised(o) ==
  CASE o.kind = "exception" -> [type |-> "ConnectionError", status |-> 0]
    [] RaisesForStatus(o.status) -> [type |-> "HTTPError", status |-> o.status]
    [] OTHER -> [type |-> "JSONDecodeError", status |-> o.status]

None == [type |-> "None", status |-> 0]

GetEvent(u) == [op |-> "get", url |-> u, ms |-> 0]
SleepEvent(d) == [op |-> "sleep", url |-> <<>>, ms |-> d]
-----------------------------------------------------------------------------
(* _request_json_with_retry, lines 114-144 *)

NoResp ==
  [kind |-> "none", status |-> 0, parses |-> FALSE, shape |-> "none",
   body |-> EmptyObj]
NoFetch == [kind |-> "none", body |-> EmptyObj, url |-> <<>>, cause |-> None]
NoReturn == [kind |-> "none", value |-> <<>>]

BackoffFromCount(n) == BackoffBaseMs * (2 ^ n)

\* time.sleep argument of line 139, in milliseconds, after `n` failed attempts
Backoff(n) == BackoffBaseMs * (2 ^ (n - 1))

KeepFirstErr(old, e) == IF old = None THEN e ELSE old

\* The exception kept in last_err by line 131
KeepErr(old, e) == e

SleepsAlways(n, limit) == TRUE

\* Line 137: a sleep follows the failed attempt that made the count `n`
SleepsAfter(n, limit) == n < limit

EnterFetchKeepCount(u) ==
  /\ url' = u
  /\ attempt' = attempt
  /\ last_err' = None
  /\ resp' = NoResp
  /\ fetched' = NoFetch
  /\ trace' = <<>>
  /\ visited' = Append(visited, PageOf(u))
  /\ pc' = "fetch"

\* Lines 121-122: entering the fetcher for address u
EnterFetch(u) ==
  /\ url' = u
  /\ attempt' = 0
  /\ last_err' = None
  /\ resp' = NoResp
  /\ fetched' = NoFetch
  /\ trace' = <<>>
  /\ visited' = Append(visited, PageOf(u))
  /\ pc' = "fetch"

InBudgetAtLeastOnce(n, limit) == n = 0 \/ n < limit

\* Line 124: the loop condition, with n attempts completed
InBudget(n, limit) == n < limit

\* Where control goes when the fetcher returns or raises
AfterFetch == IF call = "_request_json_with_retry" THEN "done" ELSE "page"

\* One loop iteration whose GET is accepted: line 128 returns resp.json();
\* g is the value the GET counter takes
SucceedsWith(g) ==
  /\ pc = "fetch"
  /\ InBudget(attempt, max_retries)
  /\ \E o \in Responses(url) :
       /\ Accepted(o)
       /\ resp' = o
       /\ fetched' = [kind |-> "json", body |-> o.body, url |-> <<>>, cause |-> None]
       /\ served' = Append(served, o.shape)
  /\ trace' = Append(trace, GetEvent(url))
  /\ pc' = AfterFetch
  /\ returned' = IF call = "_request_json_with_retry"
                 THEN [kind |-> "value", value |-> fetched'.body]
                 ELSE returned
  /\ gets' = g
  /\ UNCHANGED <<client, calls, call, args, server, self_url, max_retries, base_url,
                 json_data, page_count, p, url, attempt, last_err, visited,
                 sent, updateRet>>

\* One loop iteration whose GET fails: lines 129-139; g is the value the
\* GET counter takes
FailsWith(g) ==
  /\ pc = "fetch"
  /\ InBudget(attempt, max_retries)
  /\ \E o \in Responses(url) :
       /\ ~Accepted(o)
       /\ resp' = o
       /\ last_err' = KeepErr(last_err, Raised(o))
  /\ attempt' = attempt + 1
  /\ trace' = IF SleepsAfter(attempt', max_retries)
              THEN trace \o <<GetEvent(url), SleepEvent(Backoff(attempt'))>>
              ELSE Append(trace, GetEvent(url))
  /\ gets' = g
  /\ UNCHANGED <<client, calls, call, args, pc, server, self_url, max_retries, base_url,
                 json_data,
                 page_count, p, url, fetched, visited, served, sent, updateRet,
                 returned>>

\* The two loop iterations, the GET counter left alone
AttemptSucceeds == SucceedsWith(gets)
AttemptFails == FailsWith(gets)

\* The two loop iterations, each GET counted
CountedSucceeds == SucceedsWith(gets + 1)
CountedFails == FailsWith(gets + 1)

\* The loop condition is false: lines 142-144 raise RuntimeError
Exhausted ==
  /\ pc = "fetch"
  /\ ~InBudget(attempt, max_retries)
  /\ fetched' = [kind |-> "raised", body |-> EmptyObj, url |-> Basename(url),
                 cause |-> last_err]
  /\ served' = Append(served, "exhausted")
  /\ pc' = AfterFetch
  /\ returned' = IF call = "_request_json_with_retry"
                 THEN [kind |-> "raise", value |-> <<>>]
                 ELSE returned
  /\ UNCHANGED <<client, calls, gets, call, args, server, self_url, max_retries, base_url,
                 json_data, page_count, p, url, attempt, last_err, resp, trace,
                 visited, sent, updateRet>>
-----------------------------------------------------------------------------
(* get_with_retry, lines 146-183 *)

\* Line 157: f'{self.url.rstrip("/")}/v1/{uri.lstrip("/")}'
BaseUrl(su, uri) == Rstrip(su, "/") \o <<"/", "v1", "/">> \o Lstrip(uri, "/")

\* Lines 163-164 and 177-178 raise nothing: body['meta']['pagination'] and
\* its ["page"] member (read by the log_debug f-string) exist
HasPageInfo(body) ==
  /\ "meta" \in DOMAIN body
  /\ "pagination" \in DOMAIN body.meta
  /\ "page" \in DOMAIN body.meta.pagination

\* Line 165: int(pagination.get('pageCount', 1))
PageCountOf(pagination) ==
  IF "pageCount" \in DOMAIN pagination THEN pagination.pageCount ELSE 1

\* body.get('data', [])
DataOf(body) == IF "data" \in DOMAIN body THEN body.data ELSE <<>>

ExtendFront(acc, items) == items \o acc

\* Lines 166 and 179: json_data.extend(...)
Extend(acc, items) == acc \o items

\* The try block of lines 161-166 (175-179 for a later page) ran to its end
PageOk(f) == f.kind = "json" /\ HasPageInfo(f.body)

FirstPageCountNoFallback(f) ==
  IF f.kind = "json" /\ HasPageInfo(f.body)
  THEN PageCountOf(f.body.meta.pagination)
  ELSE 2

\* page_count after lines 161-170
FirstPageCount(f) ==
  IF PageOk(f) THEN PageCountOf(f.body.meta.pagination) ELSE 1

CollectedAnyJson(acc, f) ==
  IF f.kind = "json" THEN Extend(acc, DataOf(f.body)) ELSE acc

CollectedOrReset(acc, f) ==
  IF f.kind = "json" /\ HasPageInfo(f.body) THEN Extend(acc, DataOf(f.body)) ELSE <<>>

\* json_data after the try/except around one page (lines 161-170, 175-181)
Collected(acc, f) ==
  IF PageOk(f) THEN Extend(acc, DataOf(f.body)) ELSE acc

\* Line 183, and for update_scheduled_job the return into get_record
Finish(data) ==
  /\ pc' = IF call = "get_with_retry" THEN "done" ELSE "resolved"
  /\ returned' = IF call = "get_with_retry"
                 THEN [kind |-> "value", value |-> data]
                 ELSE returned
  /\ UNCHANGED <<url, attempt, last_err, resp, fetched, trace, visited>>

LoopToOneMore(n, count, data) ==
  IF n <= count + 1
  THEN p' = n /\ EnterFetch(SetPage(base_url, n)) /\ UNCHANGED returned
  ELSE p' = p /\ Finish(data)

\* Line 173: the for loop reaches page n (or ends) with `count` pages known
LoopTo(n, count, data) ==
  IF n <= count
  THEN p' = n /\ EnterFetch(SetPage(base_url, n)) /\ UNCHANGED returned
  ELSE p' = p /\ Finish(data)

\* Lines 160-173: the first page's result is processed and the loop begins
FirstPage ==
  /\ pc = "page"
  /\ p = 1
  /\ page_count' = FirstPageCount(fetched)
  /\ json_data' = Collected(json_data, fetched)
  /\ LoopTo(2, page_count', json_data')
  /\ UNCHANGED <<client, calls, gets, call, args, server, self_url, max_retries, base_url, served,
                 sent, updateRet>>

\* Lines 175-181 for page p, then the loop moves on
NextPage ==
  /\ pc = "page"
  /\ p >= 2
  /\ json_data' = Collected(json_data, fetched)
  /\ LoopTo(p + 1, page_count, json_data')
  /\ UNCHANGED <<client, calls, gets, call, args, server, self_url, max_retries, base_url,
                 page_count, served, sent, updateRet>>
-----------------------------------------------------------------------------
(* get_single_record_with_retry (186-208) and get_record_by_id (261-266) *)

SingleRecordAnyData(f) ==
  IF f.kind = "json" /\ f.body.type = "dict" /\ "data" \in DOMAIN f.body.value
  THEN f.body.value.data.value
  ELSE EmptyObj

\* Lines 198-208: json_data once the fetch ended as `f`
SingleRecordOf(f) ==
  IF /\ f.kind = "json"
     /\ f.body.type = "dict"                      \* else .get raises, caught
     /\ "data" \in DOMAIN f.body.value
     /\ f.body.value.data.type = "dict"           \* isinstance(data_obj, dict)
  THEN f.body.value.data.value
  ELSE EmptyObj

\* Lines 199-208, and lines 263-266 when called by get_record_by_id
SingleRecord ==
  /\ pc = "page"
  /\ call \in {"get_single_record_with_retry", "get_record_by_id"}
  /\ json_data' = SingleRecordOf(fetched)
  /\ returned' = IF call = "get_record_by_id" /\ json_data' = EmptyObj
                 THEN [kind |-> "None", value |-> <<>>]
                 ELSE [kind |-> "record", value |-> json_data']
  /\ pc' = "done"
  /\ UNCHANGED <<client, calls, gets, call, args, server, self_url, max_retries, base_url,
                 page_count, p, url, attempt, last_err, resp, fetched,
                 trace, visited, served, sent, updateRet>>

-----------------------------------------------------------------------------
(* update_scheduled_job, lines 438-464, with get_record (218-229) and     *)
(* update (268-296)                                                        *)

RECURSIVE Replace(_, _, _)
\* s.replace(old, new), new being a sequence of tokens
Replace(s, old, new) ==
  IF s = <<>> THEN <<>>
  ELSE (IF Head(s) = old THEN new ELSE <<Head(s)>>) \o Replace(Tail(s), old, new)

\* "&amp;": an ampersand followed by the text amp;
Amp == <<"&", "amp;">>

\* parameter.replace("&", "&amp;")
EscapeAmp(v) == Replace(v, "&", Amp)

\* filters[<label>][$eq]
FilterKey(label) == CASE label = "name" -> "filters[name][$eq]"

\* Lines 222-226: table + filter, the uri get_record gives to get_with_retry
GetRecordUri(table, label, parameter) ==
  IF Find(table, "?") # 0
  THEN table \o <<"&", FilterKey(label), "=">> \o EscapeAmp(parameter)
  ELSE table \o <<"?", FilterKey(label), "=">> \o EscapeAmp(parameter)

\* Lines 392-394: the uri get_id gives to get_with_retry
GetIdUri(match_table, match_field, match_string) ==
  match_table \o <<"?", FilterKey(match_field), "=">> \o EscapeAmp(match_string)

\* Lines 237-238: the url get_filtered_records requests
FilteredUrl(su, match_table, match_field, match_string) ==
  su \o <<"/", "v1", "/">> \o match_table
     \o <<"?", FilterKey(match_field), "=">> \o EscapeAmp(match_string)

GetRecordLast(data) ==
  IF data # <<>> THEN [found |-> TRUE, rec |-> data[Len(data)]]
  ELSE [found |-> FALSE, rec |-> EmptyObj]

\* Lines 226-229: the first aggregated record, or None
GetRecord(data) ==
  IF data # <<>> THEN [found |-> TRUE, rec |-> data[1]]
  ELSE [found |-> FALSE, rec |-> EmptyObj]

JobIdUnchecked(rec) ==
  [found |-> TRUE,
   id |-> IF "documentId" \in DOMAIN rec THEN rec.documentId ELSE ""]

\* Lines 456-457: the record's documentId when it has a non-empty one
JobId(rec) ==
  IF "documentId" \in DOMAIN rec /\ rec.documentId # ""
  THEN [found |-> TRUE, id |-> rec.documentId]
  ELSE [found |-> FALSE, id |-> ""]

PutStatuses == {200, 204, 500}

SendTwice(log, req) == Append(Append(log, req), req)

\* One session.post / put / delete call: the request reaches the server once
Send(log, req) == Append(log, req)

\* What one session.put can produce
PutOutcomes ==
  {[kind |-> "exception", status |-> 0]}
  \cup {[kind |-> "response", status |-> s] : s \in PutStatuses}

\* update(table, element_id, data): True only for a 200 response
Update(o) == o.kind = "response" /\ o.status = 200

JobDataAlwaysSuccessful(status, errs) ==
  [last_scheduled_run |-> "now", result |-> status, error_details |-> errs,
   last_successful_run |-> "now"]

\* Lines 445-451: job_data for a run that ended with `status`, the job
\* context holding the error messages `errs`; "now" is datetime.now()
JobData(status, errs) ==
  IF status = "Succeeded"
  THEN [last_scheduled_run |-> "now", result |-> status, error_details |-> errs,
        last_successful_run |-> "now"]
  ELSE [last_scheduled_run |-> "now", result |-> status, error_details |-> errs]

\* Lines 460-464: what update_scheduled_job returns once update returned `u`
ReportUpdate(u) == TRUE

\* Lines 453-459: no record, or a record without documentId: return False
JobUnresolved ==
  /\ pc = "resolved" /\ call = "update_scheduled_job"
  /\ LET r == GetRecord(json_data)
     IN ~r.found \/ ~JobId(r.rec).found
  /\ returned' = [kind |-> "value", value |-> FALSE]
  /\ pc' = "done"
  /\ UNCHANGED <<client, calls, gets, call, args, server, self_url, max_retries, base_url,
                 json_data, page_count, p, url, attempt, last_err, resp, fetched,
                 trace, visited, served, sent, updateRet>>

\* Lines 456-464: the record has a documentId: one PUT, then return
JobUpdate ==
  /\ pc = "resolved" /\ call = "update_scheduled_job"
  /\ LET r == GetRecord(json_data)
     IN /\ r.found
        /\ JobId(r.rec).found
        /\ \E o \in PutOutcomes :
             /\ sent' = Send(sent,
                  [method |-> "PUT",
                   url |-> self_url \o <<"/", "v1", "/", "scheduled-jobs", "/",
                                         JobId(r.rec).id>>,
                   data |-> JobData(args.status, args.error_messages),
                   outcome |-> o])
             /\ updateRet' = [called |-> TRUE, value |-> Update(o)]
  /\ returned' = [kind |-> "value", value |-> ReportUpdate(updateRet'.value)]
  /\ pc' = "done"
  /\ UNCHANGED <<client, calls, gets, call, args, server, self_url, max_retries, base_url,
                 json_data, page_count, p, url, attempt, last_err, resp, fetched,
                 trace, visited, served>>

-----------------------------------------------------------------------------
(* The lookups by filter: get_record (218-229), get_filtered_records      *)
(* (231-259), get_id (385-408)                                             *)

\* A returned None
Absent == [kind |-> "None", value |-> <<>>]

\* Lines 395-408: the documentId of the first aggregated record, or None
GetId(data) ==
  IF data # <<>> /\ "documentId" \in DOMAIN data[1] /\ data[1].documentId # ""
  THEN [kind |-> "value", value |-> data[1].documentId]
  ELSE Absent

GetFilteredRecordsUnchecked(o) ==
  IF o.kind = "response" /\ o.parses /\ "data" \in DOMAIN o.body
  THEN [kind |-> "value", value |-> o.body.data]
  ELSE Absent

\* Lines 242-259: what get_filtered_records returns once the GET produced `o`
GetFilteredRecords(o) ==
  IF /\ o.kind = "response"
     /\ o.status = 200
     /\ o.parses
     /\ "data" \in DOMAIN o.body
     /\ o.body.data # <<>>
     /\ "id" \in DOMAIN o.body.data[1]
  THEN [kind |-> "value", value |-> o.body.data]
  ELSE Absent

\* get_record: lines 226-229, once get_with_retry has returned json_data
GetRecordReturn ==
  /\ pc = "resolved" /\ call = "get_record"
  /\ LET r == GetRecord(json_data)
     IN returned' = IF r.found THEN [kind |-> "record", value |-> r.rec]
                    ELSE Absent
  /\ pc' = "done"
  /\ UNCHANGED <<client, calls, gets, call, args, server, self_url, max_retries, base_url,
                 json_data, page_count, p, url, attempt, last_err, resp, fetched,
                 trace, visited, served, sent, updateRet>>

\* get_id: lines 395-408, once get_with_retry has returned json_data
GetIdReturn ==
  /\ pc = "resolved" /\ call = "get_id"
  /\ returned' = GetId(json_data)
  /\ pc' = "done"
  /\ UNCHANGED <<client, calls, gets, call, args, server, self_url, max_retries, base_url,
                 json_data, page_count, p, url, attempt, last_err, resp, fetched,
                 trace, visited, served, sent, updateRet>>

\* get_filtered_records(match_table, match_field, match_string): one GET
CallGetFilteredRecords ==
  /\ pc = "call" /\ call = "get_filtered_records"
  /\ LET u == FilteredUrl(self_url, args.table, args.label, args.parameter)
     IN \E o \in Outcomes(u) :
          /\ trace' = Append(trace, GetEvent(u))
          /\ resp' = o
          /\ returned' = GetFilteredRecords(o)
  /\ pc' = "done"
  /\ gets' = gets + 1
  /\ UNCHANGED <<client, calls, call, args, server, self_url, max_retries, base_url,
                 json_data, page_count, p, url, attempt, last_err, fetched,
                 visited, served, sent, updateRet>>

-----------------------------------------------------------------------------
(* get_component_env_id, lines 410-426 *)

\* get_component_env_id(component, env): the documentId of the first entry
\* of component['envs'] whose name is env; iterating a null envs raises
GetComponentEnvId(component, env) ==
  LET envs == IF "envs" \in DOMAIN component THEN component.envs ELSE JList(<<>>)
  IN IF envs.type # "list" THEN [kind |-> "raise", value |-> "TypeError"]
     ELSE LET found == {i \in DOMAIN envs.value : envs.value[i].name = env}
          IN IF found = {} THEN Absent
             ELSE LET env_obj ==
                        envs.value[CHOOSE i \in found : \A j \in found : i <= j]
                  IN IF "documentId" \in DOMAIN env_obj
                     THEN [kind |-> "value", value |-> env_obj.documentId]
                     ELSE Absent

\* A direct call get_component_env_id(args.component, args.env)
ApplyGetComponentEnvId ==
  /\ pc = "call" /\ call = "get_component_env_id"
  /\ returned' = GetComponentEnvId(args.component, args.env)
  /\ pc' = "done"
  /\ UNCHANGED <<client, calls, gets, call, args, server, self_url, max_retries, base_url, json_data,
                 page_count, p, url, attempt, last_err, resp, fetched, trace,
                 visited, served, sent, updateRet>>

-----------------------------------------------------------------------------
(* The mutators: update (268-296), add (298-325), delete (327-353),       *)
(* unpublish (355-383)                                                     *)

\* Response statuses a mutation is answered with
MutStatuses == {200, 201, 204, 300, 404, 500}

\* What one session.post / put / delete can produce: a transport exception,
\* or a response whose body parses as JSON or does not
MutOutcomes ==
  {[kind |-> "exception", status |-> 0, parses |-> FALSE]}
  \cup [kind : {"response"}, status : MutStatuses, parses : BOOLEAN]

\* A value json.dumps cannot encode (a datetime, a set, ...)
NotJson == "<object>"

\* json.dumps(data) succeeds (lines 271 and 301)
Serialisable(data) == \A k \in DOMAIN data : data[k] # NotJson

\* The body of a 201 answer once parsed by x.json()
Created(data) == [data |-> data]

False == [kind |-> "value", value |-> FALSE]
True == [kind |-> "value", value |-> TRUE]

\* Lines 308-325: what add returns, or raises, once the POST produced `o`
Add(data, o) ==
  IF o.kind = "exception" THEN False
  ELSE IF o.status # 201 THEN False
  ELSE IF "team_name" \notin DOMAIN data /\ "name" \notin DOMAIN data
       THEN False      \* KeyError in the log line 311, caught at line 320
  ELSE IF o.parses THEN [kind |-> "record", value |-> Created(data)]
  ELSE [kind |-> "raise", value |-> "JSONDecodeError"]

DeleteOnlyOk(o) == o.kind = "response" /\ o.status = 200

\* Lines 336-353: delete is True for any 2xx response
Delete(o) == o.kind = "response" /\ 200 <= o.status /\ o.status < 300

\* Lines 366-383: unpublish is True only for a 200 response
Unpublish(o) == o.kind = "response" /\ o.status = 200

Bool(b) == IF b THEN True ELSE False

\* The variables a mutator never touches
MutUnchanged ==
  UNCHANGED <<client, calls, gets, call, args, server, self_url, max_retries, base_url, json_data,
              page_count, p, url, attempt, last_err, resp, fetched, trace,
              visited, served, updateRet>>

\* add(table, data)
CallAdd ==
  /\ pc = "call" /\ call = "add"
  /\ IF ~Serialisable(args.data)
     THEN sent' = sent /\ returned' = False
     ELSE \E o \in MutOutcomes :
            /\ sent' = Send(sent,
                 [method |-> "POST",
                  url |-> self_url \o <<"/", "v1", "/", args.table>>,
                  data |-> args.data, outcome |-> o])
            /\ returned' = Add(args.data, o)
  /\ pc' = "done"
  /\ MutUnchanged

\* update(table, element_id, data)
CallUpdate ==
  /\ pc = "call" /\ call = "update"
  /\ IF ~Serialisable(args.data)
     THEN sent' = sent /\ returned' = False
     ELSE \E o \in MutOutcomes :
            /\ sent' = Send(sent,
                 [method |-> "PUT",
                  url |-> self_url \o <<"/", "v1", "/", args.table, "/",
                                        args.element_id>>,
                  data |-> args.data, outcome |-> o])
            /\ returned' = Bool(Update(o))
  /\ pc' = "done"
  /\ MutUnchanged

\* delete(table, element_id)
CallDelete ==
  /\ pc = "call" /\ call = "delete"
  /\ \E o \in MutOutcomes :
       /\ sent' = Send(sent,
            [method |-> "DELETE",
             url |-> self_url \o <<"/", "v1", "/", args.table, "/",
                                   args.element_id>>,
             data |-> EmptyObj, outcome |-> o])
       /\ returned' = Bool(Delete(o))
  /\ pc' = "done"
  /\ MutUnchanged

\* unpublish(table, element_id)
CallUnpublish ==
  /\ pc = "call" /\ call = "unpublish"
  /\ \E o \in MutOutcomes :
       /\ sent' = Send(sent,
            [method |-> "PUT",
             url |-> self_url \o <<"/", "v1", "/", args.table, "/",
                                   args.element_id>>,
             data |-> [publishedAt |-> "None"], outcome |-> o])
       /\ returned' = Bool(Unpublish(o))
  /\ pc' = "done"
  /\ MutUnchanged

-----------------------------------------------------------------------------
(* test_connection, lines 95-108 *)

\* Lines 97-108: True unless session.head raised; the status is only logged
TestConnection(o) == o.kind # "exception"

\* test_connection(): one HEAD of self.url; the result is returned, and no
\* field of the client is assigned
CallTestConnection ==
  /\ pc = "call" /\ call = "test_connection"
  /\ \E o \in MutOutcomes :
       /\ sent' = Send(sent,
            [method |-> "HEAD", url |-> self_url, data |-> EmptyObj,
             outcome |-> o])
       /\ returned' = Bool(TestConnection(o))
  /\ pc' = "done"
  /\ MutUnchanged

-----------------------------------------------------------------------------
(* Entry points and specifications *)

\* The collections served: pageCount >= 1 pages of perPage records each
ServerConfigs(docs) ==
  [pageCount : 1..MaxPages, perPage : 0..MaxPerPage, doc : docs]

\* The collections a lookup by filter is served from
LookupConfigs(docs) ==
  [pageCount : 1..MaxJobPages, perPage : 0..MaxPerPage, doc : docs]

\* self.url and the uri argument of the calls that are modelled; as in every
\* caller, the uri carries no pagination[page] parameter of its own, so the
\* first request is served page 1
Targets ==
  { [su |-> <<"https://sc">>, uri |-> <<"components">>],
    [su |-> <<"https://sc", "/">>,
     uri |-> <<"/", "components", "?", "populate", "=", "true">>],
    [su |-> <<"https://sc">>,
     uri |-> <<"components", "?", "filters[name]", "=", "x", "&", "sort", "=",
               "asc">>] }

\* url arguments of a direct _request_json_with_retry call
DirectUrls ==
  { <<"https://sc", "/", "v1", "/", "components">>,
    <<"https://sc", "/", "v1", "/", "components", "?", "filters[name]", "=", "x">>,
    <<"https://sc", "/", "v1", "/", "components", "?", "a", "=", "?", "&", "b", "=",
      "1">>,
    <<"https://sc", "/", "v1", "/", "components", "?", "pagination%5Bpage%5D", "=",
      "2">> }

\* get_record('scheduled-jobs', 'name', job_name): table + filter
JobUri == GetRecordUri(<<"scheduled-jobs">>, "name", <<"job">>)

NoUpdate == [called |-> FALSE, value |-> FALSE]

\* Lines 45-89: the fields __init__ sets besides self.url, the last one from
\* the result of test_connection
Client(ok) ==
  [key |-> "key", timeout |-> 10, filter |-> "",
   api_headers |-> [Authorization |-> <<"Bearer", "key">>],
   components |-> "components", products |-> "products",
   github_teams |-> "github-teams", environments |-> "environments",
   scheduled_jobs |-> "scheduled-jobs", connection_ok |-> ok]

\* The construction of the client, seen as the call before the first
Constructed == [call |-> "__init__", returned |-> [kind |-> "None", value |-> <<>>]]

\* The first call on a client
FirstCall == [n |-> 1, prev |-> Constructed]

\* Calls whose arguments are all held in other variables
NoArgs == EmptyObj

\* status and job_context.error_messages of an update_scheduled_job call
JobArgs ==
  [status : {"Succeeded", "Failed"}, error_messages : {<<>>, <<"e1", "e2">>}]

InitCommon ==
  /\ json_data = <<>>
  /\ page_count = 0
  /\ p = 1
  /\ attempt = 0
  /\ last_err = None
  /\ resp = NoResp
  /\ fetched = NoFetch
  /\ trace = <<>>
  /\ visited = <<PageOf(url)>>
  /\ served = <<>>
  /\ sent = <<>>
  /\ updateRet = NoUpdate
  /\ returned = NoReturn
  /\ gets = 0
  /\ client = Client(TRUE)
  /\ calls = FirstCall
  /\ pc = "fetch"

\* A direct call of _request_json_with_retry(url, max_retries, timeout)
InitFetch ==
  /\ call = "_request_json_with_retry"
  /\ args = NoArgs
  /\ server \in ServerConfigs({"present"})
  /\ self_url = <<"https://sc">>
  /\ max_retries \in 0..MaxRetries
  /\ base_url = <<>>
  /\ url \in DirectUrls
  /\ InitCommon

\* A call of get_with_retry(uri, max_retries), just after line 158
Init ==
  /\ call = "get_with_retry"
  /\ args = NoArgs
  /\ server \in ServerConfigs({"present"})
  /\ max_retries \in 0..MaxAggRetries
  /\ \E t \in Targets :
       /\ self_url = t.su
       /\ base_url = BaseUrl(t.su, t.uri)
  /\ url = base_url
  /\ InitCommon

\* A call of update_scheduled_job, inside get_record's get_with_retry(uri)
InitJob ==
  /\ call = "update_scheduled_job"
  /\ args \in JobArgs
  /\ server \in LookupConfigs({"present", "absent", "empty"})
  /\ max_retries = DefaultMaxRetries
  /\ self_url \in {<<"https://sc">>}
  /\ base_url = BaseUrl(self_url, JobUri)
  /\ url = base_url
  /\ InitCommon

\* The data argument of add and update: with name, with team_name, with both,
\* with neither, and one json.dumps rejects
MutData ==
  { [name |-> "n"], [team_name |-> "t"], [team_name |-> "t", name |-> "n"],
    [description |-> "d"], [name |-> "n", updated |-> NotJson] }

MutTables == {"components", "teams"}
MutIds == {"doc1", "doc2"}

\* A call of add, update, delete or unpublish
InitMut ==
  /\ call \in {"add", "update", "delete", "unpublish"}
  /\ args \in IF call = "add"
              THEN [table : MutTables, element_id : {""}, data : MutData]
              ELSE IF call = "update"
              THEN [table : MutTables, element_id : MutIds, data : MutData]
              ELSE [table : MutTables, element_id : MutIds, data : {EmptyObj}]
  /\ server = [pageCount |-> 1, perPage |-> 0, doc |-> "present"]
  /\ max_retries = DefaultMaxRetries
  /\ self_url = <<"https://sc">>
  /\ base_url = <<>>
  /\ url = <<>>
  /\ json_data = <<>>
  /\ page_count = 0
  /\ p = 1
  /\ attempt = 0
  /\ last_err = None
  /\ resp = NoResp
  /\ fetched = NoFetch
  /\ trace = <<>>
  /\ visited = <<>>
  /\ served = <<>>
  /\ sent = <<>>
  /\ updateRet = NoUpdate
  /\ returned = NoReturn
  /\ gets = 0
  /\ client = Client(TRUE)
  /\ calls = FirstCall
  /\ pc = "call"

\* Query parameters as they are written in a url: name and value tokens (no
\* value token for a blank value); a repeated name, an existing page
\* parameter (raw and percent-encoded) and a bracketed name are among them
QueryParams ==
  { <<"a", "=", "1">>, <<"a", "=", "2">>, <<"b", "=">>,
    <<"pagination[page]", "=", "7">>, <<"pagination%5Bpage%5D", "=", "7">>,
    <<"filters[name]", "=", "x">> }

RECURSIVE JoinParams(_)
\* the query string of a sequence of parameters
JoinParams(ps) ==
  IF ps = <<>> THEN <<>>
  ELSE IF Len(ps) = 1 THEN ps[1]
  ELSE ps[1] \o <<"&">> \o JoinParams(Tail(ps))

\* The urls given to _set_page: 0..MaxParams parameters after the path
PageUrls ==
  LET path == <<"https://sc", "/", "v1", "/", "components">>
  IN {path} \cup
     { path \o <<"?">> \o JoinParams(ps) :
         ps \in UNION {[1..n -> QueryParams] : n \in 1..MaxParams} }

\* A call of _set_page(url, page)
InitPage ==
  /\ call = "_set_page"
  /\ args = NoArgs
  /\ base_url \in PageUrls
  /\ p \in 1..MaxPages
  /\ server = [pageCount |-> 1, perPage |-> 0, doc |-> "present"]
  /\ max_retries = DefaultMaxRetries
  /\ self_url = <<"https://sc">>
  /\ url = <<>>
  /\ json_data = <<>>
  /\ page_count = 0
  /\ attempt = 0
  /\ last_err = None
  /\ resp = NoResp
  /\ fetched = NoFetch
  /\ trace = <<>>
  /\ visited = <<>>
  /\ served = <<>>
  /\ sent = <<>>
  /\ updateRet = NoUpdate
  /\ returned = NoReturn
  /\ gets = 0
  /\ client = Client(TRUE)
  /\ calls = FirstCall
  /\ pc = "call"

\* Collection uris: without and with query parameters of their own
RecordTables ==
  { <<"components">>, <<"components", "?", "populate", "=", "true">> }

\* Filter values: without and with an ampersand
RecordValues == { <<"job">>, <<"a", "&", "b">> }

\* table / label / parameter of a lookup by filter
RecordArgs == [table : RecordTables, label : {"name"}, parameter : RecordValues]

\* A call of get_record or get_id (inside its get_with_retry(uri)), or of
\* get_filtered_records
InitRecord ==
  /\ args \in RecordArgs
  /\ server \in LookupConfigs({"present", "absent"})
  /\ max_retries = DefaultMaxRetries
  /\ self_url = <<"https://sc">>
  /\ \/ /\ call = "get_record"
        /\ base_url =
             BaseUrl(self_url, GetRecordUri(args.table, args.label, args.parameter))
        /\ url = base_url
        /\ InitCommon
     \/ /\ call = "get_id"
        /\ base_url =
             BaseUrl(self_url, GetIdUri(args.table, args.label, args.parameter))
        /\ url = base_url
        /\ InitCommon
     \/ /\ call = "get_filtered_records"
        /\ base_url = <<>>
        /\ url = <<>>
        /\ json_data = <<>>
        /\ page_count = 0
        /\ p = 1
        /\ attempt = 0
        /\ last_err = None
        /\ resp = NoResp
        /\ fetched = NoFetch
        /\ trace = <<>>
        /\ visited = <<>>
        /\ served = <<>>
        /\ sent = <<>>
        /\ updateRet = NoUpdate
        /\ returned = NoReturn
        /\ gets = 0
        /\ client = Client(TRUE)
        /\ calls = FirstCall
        /\ pc = "call"

\* Entries of an envs list: a name, and a documentId or none
EnvEntries ==
  [name : {"dev", "prod"}, documentId : {"env-1", "env-2"}]
  \cup [name : {"dev", "prod"}]

\* Component records: envs missing, null, or a list of 0..MaxEnvs entries
Components ==
  { [name |-> "c"], [name |-> "c", envs |-> JNull] }
  \cup { [name |-> "c", envs |-> JList(es)] :
           es \in UNION {[1..n -> EnvEntries] : n \in 0..MaxEnvs} }

\* A call of get_component_env_id(component, env)
InitEnv ==
  /\ call = "get_component_env_id"
  /\ args \in [component : Components, env : {"dev", "prod", "staging"}]
  /\ server = [pageCount |-> 1, perPage |-> 0, doc |-> "present"]
  /\ max_retries = DefaultMaxRetries
  /\ self_url = <<"https://sc">>
  /\ base_url = <<>>
  /\ url = <<>>
  /\ json_data = <<>>
  /\ page_count = 0
  /\ p = 1
  /\ attempt = 0
  /\ last_err = None
  /\ resp = NoResp
  /\ fetched = NoFetch
  /\ trace = <<>>
  /\ visited = <<>>
  /\ served = <<>>
  /\ sent = <<>>
  /\ updateRet = NoUpdate
  /\ returned = NoReturn
  /\ gets = 0
  /\ client = Client(TRUE)
  /\ calls = FirstCall
  /\ pc = "call"

\* table and id of a get_record_by_id call; get_single_record_with_retry is
\* given the uri <table>/<id>
SingleArgs == [table : {<<"components">>}, id : {"doc1", "doc2"}]

\* A call of get_single_record_with_retry(uri, max_retries), or of
\* get_record_by_id(table, id), just after line 198
InitSingle ==
  /\ call \in {"get_single_record_with_retry", "get_record_by_id"}
  /\ args \in SingleArgs
  /\ server \in LookupConfigs({"present", "absent"})
  /\ server.pageCount = 1 /\ server.perPage = 1
  /\ max_retries \in IF call = "get_record_by_id" THEN {DefaultMaxRetries}
                     ELSE 0..MaxAggRetries
  /\ self_url \in {<<"https://sc">>, <<"https://sc", "/">>}
  /\ base_url = BaseUrl(self_url, args.table \o <<"/", args.id>>)
  /\ url = base_url
  /\ InitCommon

\* A call of get_with_retry(uri, max_retries) whose GETs are counted
InitLive ==
  /\ call = "get_with_retry"
  /\ args = NoArgs
  /\ server \in LookupConfigs({"present"})
  /\ max_retries \in 0..MaxAggRetries
  /\ self_url = <<"https://sc">>
  /\ base_url = BaseUrl(self_url, <<"components", "?", "populate", "=", "true">>)
  /\ url = base_url
  /\ InitCommon

\* A call of one of the three fetching operations with a max_retries of at
\* most 1, negative values included
InitBudget ==
  /\ call \in {"_request_json_with_retry", "get_with_retry",
               "get_single_record_with_retry"}
  /\ args \in IF call = "get_single_record_with_retry" THEN SingleArgs ELSE {NoArgs}
  /\ server \in LookupConfigs({"present"})
  /\ max_retries \in (0 - MaxNegRetries)..1
  /\ self_url = <<"https://sc">>
  /\ base_url = IF call = "get_single_record_with_retry"
                THEN BaseUrl(self_url, args.table \o <<"/", args.id>>)
                ELSE BaseUrl(self_url, <<"components">>)
  /\ url = base_url
  /\ InitCommon

\* The operations called on a constructed client
Reads == {"get_with_retry", "get_single_record_with_retry"}
Mutators == {"add", "update", "delete", "unpublish"}
ClientCalls == Reads \cup Mutators \cup {"update_scheduled_job", "test_connection"}

\* The arguments of a call of c
CallArgs(c) ==
  CASE c = "get_single_record_with_retry" -> {[table |-> <<"components">>, id |-> "doc1"]}
    [] c = "update_scheduled_job" -> {[status |-> "Succeeded", error_messages |-> <<>>]}
    [] c = "add" -> {[table |-> "components", element_id |-> "", data |-> [name |-> "n"]]}
    [] c = "update" ->
         {[table |-> "components", element_id |-> "doc1", data |-> [name |-> "n"]]}
    [] c \in {"delete", "unpublish"} ->
         {[table |-> "components", element_id |-> "doc1", data |-> EmptyObj]}
    [] OTHER -> {NoArgs}

\* The uri a call of c with arguments a fetches
CallUri(c, a) ==
  CASE c = "get_with_retry" -> <<"components">>
    [] c = "get_single_record_with_retry" -> a.table \o <<"/", a.id>>
    [] c = "update_scheduled_job" -> JobUri

\* max_retries: an argument of the reads, the default inside get_record
CallRetries(c) == IF c \in Reads THEN {1} ELSE {DefaultMaxRetries}

\* The remote collection at the time of a call: one page or two
ClientServers == [pageCount : {1, 2}, perPage : {1}, doc : {"present"}]

KeptData(old) == old

\* Lines 158 and 198: json_data is a new local of every call
FreshData(old) == <<>>

\* A client just constructed: connection_ok is what test_connection returned
\* at line 89
InitClient ==
  /\ call = "__init__"
  /\ args = NoArgs
  /\ server \in ClientServers
  /\ max_retries = DefaultMaxRetries
  /\ self_url = <<"https://sc">>
  /\ base_url = <<>>
  /\ url = <<>>
  /\ json_data = <<>>
  /\ page_count = 0
  /\ p = 1
  /\ attempt = 0
  /\ last_err = None
  /\ resp = NoResp
  /\ fetched = NoFetch
  /\ trace = <<>>
  /\ visited = <<>>
  /\ served = <<>>
  /\ \E o \in MutOutcomes :
       /\ sent = <<[method |-> "HEAD", url |-> self_url, data |-> EmptyObj,
                    outcome |-> o]>>
       /\ client = Client(TestConnection(o))
  /\ updateRet = NoUpdate
  /\ returned = Constructed.returned
  /\ gets = 0
  /\ calls = [n |-> 0, prev |-> Constructed]
  /\ pc = "done"

\* The caller makes its next call on the client once the last one returned;
\* the remote collection may have changed in between
NewCall ==
  /\ pc = "done"
  /\ calls.n < MaxCalls
  /\ \E c \in ClientCalls :
       /\ call' = c
       /\ args' \in CallArgs(c)
       /\ max_retries' \in CallRetries(c)
       /\ IF c \in Reads \cup {"update_scheduled_job"}
          THEN /\ base_url' = BaseUrl(self_url, CallUri(c, args'))
               /\ visited' = <<PageOf(base_url')>>
               /\ pc' = "fetch"
          ELSE /\ base_url' = <<>>
               /\ visited' = <<>>
               /\ pc' = "call"
  /\ url' = base_url'
  /\ server' \in ClientServers
  /\ calls' = [n |-> calls.n + 1, prev |-> [call |-> call, returned |-> returned]]
  /\ json_data' = FreshData(json_data)
  /\ page_count' = 0
  /\ p' = 1
  /\ attempt' = 0
  /\ last_err' = None
  /\ resp' = NoResp
  /\ fetched' = NoFetch
  /\ trace' = <<>>
  /\ served' = <<>>
  /\ sent' = <<>>
  /\ updateRet' = NoUpdate
  /\ returned' = NoReturn
  /\ gets' = 0
  /\ UNCHANGED <<client, self_url>>

NextFetch == AttemptSucceeds \/ AttemptFails \/ Exhausted

Next == AttemptSucceeds \/ AttemptFails \/ Exhausted \/ FirstPage \/ NextPage

NextJob ==
  \/ AttemptSucceeds \/ AttemptFails \/ Exhausted \/ FirstPage \/ NextPage
  \/ JobUnresolved \/ JobUpdate

SpecFetch == InitFetch /\ [][NextFetch]_vars

Spec == Init /\ [][Next]_vars

SpecJob == InitJob /\ [][NextJob]_vars

NextMut == CallAdd \/ CallUpdate \/ CallDelete \/ CallUnpublish

SpecMut == InitMut /\ [][NextMut]_vars

NextRecord ==
  \/ AttemptSucceeds \/ AttemptFails \/ Exhausted \/ FirstPage \/ NextPage
  \/ GetRecordReturn \/ GetIdReturn \/ CallGetFilteredRecords

SpecRecord == InitRecord /\ [][NextRecord]_vars

NextPageCall == ApplySetPage

NextLive == CountedSucceeds \/ CountedFails \/ Exhausted \/ FirstPage \/ NextPage

\* The call has not returned yet; exactly then a step of NextLive is enabled
Running == pc # "done"

\* Every step of the call is a step of one thread that nothing blocks for
\* ever: each session.get ends (timeout) and each sleep is finite.  This is
\* weak fairness of NextLive, with ENABLED <<NextLive>>_vars written as Running
Fairness == []<>(~Running) \/ []<><<NextLive>>_vars

SpecLive == InitLive /\ [][NextLive]_vars /\ Fairness

NextBudget ==
  \/ CountedSucceeds \/ CountedFails \/ Exhausted
  \/ FirstPage \/ NextPage \/ SingleRecord

SpecBudget == InitBudget /\ [][NextBudget]_vars

NextClient ==
  \/ NewCall
  \/ CountedSucceeds \/ CountedFails \/ Exhausted
  \/ FirstPage \/ NextPage \/ SingleRecord
  \/ JobUnresolved \/ JobUpdate
  \/ CallAdd \/ CallUpdate \/ CallDelete \/ CallUnpublish \/ CallTestConnection

SpecClient == InitClient /\ [][NextClient]_vars

NextSingle == AttemptSucceeds \/ AttemptFails \/ Exhausted \/ SingleRecord

SpecSingle == InitSingle /\ [][NextSingle]_vars

NextEnv == ApplyGetComponentEnvId

SpecEnv == InitEnv /\ [][NextEnv]_vars

SpecPage == InitPage /\ [][NextPageCall]_vars
-----------------------------------------------------------------------------
(* Properties of the retrying fetcher, checked under SpecFetch *)

GetCount == Cardinality({i \in DOMAIN trace : trace[i].op = "get"})
SleepCount == Cardinality({i \in DOMAIN trace : trace[i].op = "sleep"})

\* C1: in one fetcher call the number of GET attempts never exceeds
\* max_retries, and no sleep follows the final failed attempt: a sleep is
\* the latest event only while another attempt is still due, and when the
\* retries-exhausted error is raised the latest event is the failed GET.
C1_AttemptsBounded ==
  /\ GetCount <= max_retries
  /\ (trace # <<>> /\ trace[Len(trace)].op = "sleep")
       => (pc = "fetch" /\ attempt < max_retries)
  /\ (fetched.kind = "raised" /\ trace # <<>>) => trace[Len(trace)].op = "get"

C1_Witness ==
  /\ fetched.kind = "raised"
  /\ max_retries = 3
  /\ GetCount = 3
  /\ SleepCount = 2

\* C2: under permanent failure with max_retries = n >= 1 the call makes
\* exactly n GETs and n-1 sleeps, alternating GET, sleep, ..., GET, and the
\* k-th sleep lasts 0.5 * 2^(k-1) s; for n = 4 the sleeps are 0.5, 1.0, 2.0 s.
C2_BackoffSchedule ==
  (fetched.kind = "raised" /\ max_retries >= 1) =>
    /\ Len(trace) = 2 * max_retries - 1
    /\ GetCount = max_retries
    /\ SleepCount = max_retries - 1
    /\ \A i \in DOMAIN trace :
         IF i % 2 = 1
         THEN trace[i] = [op |-> "get", url |-> url, ms |-> 0]
         ELSE /\ trace[i].op = "sleep"
              /\ trace[i].ms = 500 * (2 ^ ((i \div 2) - 1))
    /\ max_retries = 4 =>
         [k \in 1..3 |-> trace[2 * k].ms] = <<500, 1000, 2000>>

C2_Witness ==
  /\ fetched.kind = "raised"
  /\ max_retries = 4
  /\ Len(trace) = 7

\* A 2xx response whose body parses as JSON
IsSuccess(o) == o.kind = "response" /\ o.status \in 200..299 /\ o.parses

\* C3: the fetcher returns a body only from an attempt whose status is 2xx
\* and whose body parses as JSON, namely the body of the first such attempt
\* (no GET or sleep follows it); every other outcome is a failed attempt
\* that consumes one unit of the retry budget.
C3_OnlySuccessAccepted ==
  /\ fetched.kind = "json" =>
       /\ IsSuccess(resp)
       /\ fetched.body = resp.body
       /\ trace[Len(trace)].op = "get"
       /\ GetCount = attempt + 1
  /\ (resp.kind # "none" /\ ~IsSuccess(resp)) =>
       /\ fetched.kind # "json"
       /\ GetCount = attempt

\* C4: when all max_retries (>= 1) attempts have failed, the error raised
\* carries the failure reason of the last failed attempt, and names the
\* request by its URL cut before the query string: a prefix of the URL that
\* holds no "?" and is followed in the URL by "?" or by nothing.
C4_LastErrorAndBasename ==
  (fetched.kind = "raised" /\ max_retries >= 1) =>
    /\ fetched.cause = Raised(resp)
    /\ fetched.cause # None
    /\ Len(fetched.url) <= Len(url)
    /\ fetched.url = SubSeq(url, 1, Len(fetched.url))
    /\ \A i \in DOMAIN fetched.url : fetched.url[i] # "?"
    /\ Len(fetched.url) < Len(url) => url[Len(fetched.url) + 1] = "?"

C4_Witness ==
  /\ fetched.kind = "raised"
  /\ max_retries = 3
  /\ fetched.cause.type = "JSONDecodeError"
  /\ Len(fetched.url) < Len(url)
  /\ \E i \in DOMAIN url : i > Len(fetched.url) + 1 /\ url[i] = "?"
-----------------------------------------------------------------------------
(* Properties of the page aggregator, checked under Spec *)

RECURSIVE PagesData(_, _)
\* The data arrays of pages n..last of the collection, one after the other,
\* keeping only the pages in `keep`
PagesData(n, keep) ==
  IF n > server.pageCount THEN <<>>
  ELSE (IF n \in keep THEN [j \in 1..server.perPage |-> Record(n, j)] ELSE <<>>)
       \o PagesData(n + 1, keep)

EveryPage == 1..server.pageCount

\* The pages whose fetcher call ended with a well-formed envelope
ServedFull == {n \in DOMAIN served : served[n] = "full"}

\* C5: when every page fetch succeeds, get_with_retry over N pages of k
\* records returns exactly N*k records: the pages' data arrays in page
\* order 1..N, each in its within-page order.
C5_AggregationComplete ==
  (pc = "done" /\ \A n \in DOMAIN served : served[n] = "full") =>
    /\ returned.kind = "value"
    /\ Len(returned.value) = server.pageCount * server.perPage
    /\ returned.value = PagesData(1, EveryPage)
    /\ \A n \in 1..server.pageCount : \A j \in 1..server.perPage :
         returned.value[(n - 1) * server.perPage + j].id = <<n, j>>

C5_Witness ==
  /\ pc = "done"
  /\ served = <<"full", "full", "full">>
  /\ server.perPage = 2
  /\ Len(returned.value) = 6

C7_FirstPageFailure ==
  (Len(served) >= 1 /\ served[1] = "exhausted") =>
    /\ visited = <<1>>
    /\ json_data = <<>>
    /\ pc \in {"page", "done"}
    /\ pc = "done" => returned = [kind |-> "value", value |-> <<>>]

C7_Witness ==
  /\ pc = "done"
  /\ served = <<"exhausted">>
  /\ max_retries = 2
  /\ GetCount = 2
  /\ server.pageCount = 3
  /\ returned.value = <<>>

\* C8: if the fetch of some page >= 2 fails after exhausting its retries
\* while every other page is fetched with a well-formed envelope,
\* get_with_retry raises nothing, still fetches every page up to pageCount,
\* and returns exactly the records of the pages that succeeded, in page
\* order (page 2 of 3 fails: page 1's records, then page 3's).
C8_LaterPageFailure ==
  ( /\ pc = "done"
    /\ served[1] = "full"
    /\ \E n \in DOMAIN served : n >= 2 /\ served[n] = "exhausted"
    /\ \A n \in DOMAIN served : served[n] \in {"full", "exhausted"} ) =>
    /\ returned.kind = "value"
    /\ visited = [n \in 1..server.pageCount |-> n]
    /\ Len(served) = server.pageCount
    /\ returned.value = PagesData(1, ServedFull)
    /\ served = <<"full", "exhausted", "full">> =>
         returned.value = [j \in 1..server.perPage |-> Record(1, j)]
                          \o [j \in 1..server.perPage |-> Record(3, j)]

C8_Witness ==
  /\ pc = "done"
  /\ served = <<"full", "exhausted", "full">>
  /\ server.perPage = 2
  /\ Len(returned.value) = 4

\* C9: if page 1 is fetched but its response carries no
\* meta.pagination.pageCount (the pagination block, or the pageCount field
\* in it, is absent), get_with_retry treats the collection as one page: it
\* raises nothing, requests no further page, and returns the records of
\* page 1's data array.
C9_MissingPageCount ==
  (pc = "done" /\ served[1] \in {"noPageCount", "noPagination", "noMeta"}) =>
    /\ returned.kind = "value"
    /\ visited = <<1>>
    /\ returned.value = [j \in 1..server.perPage |-> Record(1, j)]

-----------------------------------------------------------------------------
(* Properties of the scheduled-job reporter, checked under SpecJob *)

\* C10: when a job record with a document identifier is resolved,
\* update_scheduled_job returns True if and only if the update (PUT) call
\* returned True, and False when the update call returned False.
C10_ReportsUpdateResult ==
  (pc = "done" /\ updateRet.called) =>
    /\ returned.kind = "value"
    /\ returned.value = updateRet.value

\* C11: update_scheduled_job never raises to its caller, and an exception
\* raised while resolving the record (the lookup's fetch fails) or while
\* applying the update (the PUT raises) ends in a False result.
C11_ExceptionsGiveFalse ==
  pc = "done" =>
    /\ returned.kind = "value"
    /\ served[1] = "exhausted" => returned.value = FALSE
    /\ (sent # <<>> /\ sent[Len(sent)].outcome.kind = "exception")
         => returned.value = FALSE

\* C12: the payload update_scheduled_job sends always holds
\* last_scheduled_run, the result status and the caller's error_details
\* list, and holds last_successful_run exactly when status is 'Succeeded'.
C12_Payload ==
  \A i \in DOMAIN sent :
    LET d == sent[i].data IN
    /\ {"last_scheduled_run", "result", "error_details"} \subseteq DOMAIN d
    /\ d.result = args.status
    /\ d.error_details = args.error_messages
    /\ ("last_successful_run" \in DOMAIN d) <=> (args.status = "Succeeded")

C12_Witness ==
  /\ pc = "done"
  /\ Len(sent) = 1
  /\ args.status = "Failed"
  /\ sent[1].data.error_details = <<"e1", "e2">>
  /\ "last_successful_run" \notin DOMAIN sent[1].data

\* The lookup's first record exists and carries a non-empty documentId
ResolvedWithDocumentId ==
  /\ json_data # <<>>
  /\ "documentId" \in DOMAIN json_data[1]
  /\ json_data[1].documentId # ""

\* C13: update_scheduled_job issues its update (one PUT, addressed to the
\* resolved documentId) only after resolving a record that has a document
\* identifier; when no record matches, or the match has no documentId, it
\* returns False and issues no request at all (no PUT, no POST).
C13_UpdateOnlyWhenResolved ==
  /\ Len(sent) <= 1
  /\ \A i \in DOMAIN sent :
       /\ sent[i].method = "PUT"
       /\ ResolvedWithDocumentId
       /\ sent[i].url[Len(sent[i].url)] = json_data[1].documentId
  /\ (pc = "done" /\ ~ResolvedWithDocumentId) =>
       /\ returned = [kind |-> "value", value |-> FALSE]
       /\ sent = <<>>

C13_Witness ==
  /\ pc = "done"
  /\ json_data # <<>>
  /\ "documentId" \notin DOMAIN json_data[1]
  /\ returned.value = FALSE
  /\ sent = <<>>

-----------------------------------------------------------------------------
(* Properties of the mutators, checked under SpecMut *)

\* C14: add, update, delete and unpublish never raise to the caller: for
\* every status, every body (parsable or not) and every transport exception
\* the call returns a value.
C14_MutatorsNeverRaise ==
  pc = "done" => returned.kind # "raise"

\* C15: add returns the created record (the response body) whenever the POST
\* was answered 201, whatever the fields mapping, and returns the failure
\* marker False for every other status and for a transport exception.
\* Stated for answers whose body parses as JSON (C14 covers the others).
C15_AddByStatusOnly ==
  (pc = "done" /\ call = "add" /\ sent # <<>>) =>
    LET o == sent[1].outcome IN
    IF o.kind = "response" /\ o.status = 201
    THEN o.parses =>
           returned = [kind |-> "record", value |-> Created(args.data)]
    ELSE returned = False

\* C16: delete returns True iff the status is in [200, 300); update and
\* unpublish return True iff the status is exactly 200; a transport
\* exception gives False for all three.
C16_StatusMapping ==
  (pc = "done" /\ call \in {"update", "delete", "unpublish"} /\ sent # <<>>) =>
    LET o == sent[1].outcome IN
    /\ returned.kind = "value"
    /\ o.kind = "exception" => returned.value = FALSE
    /\ (o.kind = "response" /\ call = "delete") =>
         (returned.value <=> (200 <= o.status /\ o.status < 300))
    /\ (o.kind = "response" /\ call \in {"update", "unpublish"}) =>
         (returned.value <=> (o.status = 200))

C16_Witness ==
  /\ pc = "done"
  /\ call = "delete"
  /\ sent # <<>>
  /\ sent[1].outcome.status = 204
  /\ returned = True

\* The HTTP method each mutator uses
MethodOf(c) ==
  IF c = "add" THEN "POST" ELSE IF c = "delete" THEN "DELETE" ELSE "PUT"

\* C17: one call of add, update, delete or unpublish issues at most one HTTP
\* request (of the call's own method), whatever its outcome; a failed
\* request is reported as False and is not sent again.
C17_NoRetry ==
  /\ Len(sent) <= 1
  /\ \A i \in DOMAIN sent : sent[i].method = MethodOf(call)
  /\ (pc = "done" /\ sent # <<>> /\ sent[1].outcome.kind = "exception") =>
       returned = False

C17_Witness ==
  /\ pc = "done"
  /\ call = "add"
  /\ Len(sent) = 1
  /\ sent[1].outcome.kind = "exception"
  /\ returned = False

-----------------------------------------------------------------------------
(* Properties of _set_page, checked under SpecPage *)

\* The (name, value) pairs a url's query parses to
ParamsOf(u) == ParseQsl(UrlQuery(u))

\* C18: re-parsing _set_page(url, p) yields every parameter of url other
\* than pagination[page], with its value, and exactly one pagination[page]
\* parameter, whose value is p; url itself is unchanged.
C18_SetPageRoundTrip ==
  (pc = "done" /\ call = "_set_page") =>
    LET before == ParamsOf(base_url)
        after == ParamsOf(returned.value)
    IN /\ \A i \in DOMAIN before :
            before[i].k # PageKey =>
              \E j \in DOMAIN after : after[j] = before[i]
       /\ Cardinality({j \in DOMAIN after : after[j].k = PageKey}) = 1
       /\ \A j \in DOMAIN after : after[j].k = PageKey => after[j].v = Str(p)

-----------------------------------------------------------------------------
(* Properties of the lookups by filter, checked under SpecRecord *)

\* t occurs in s as a contiguous run of tokens
ContainsSeq(s, t) ==
  \E i \in 1..(Len(s) - Len(t) + 1) : SubSeq(s, i, i + Len(t) - 1) = t

\* C19: for get_record, get_id and get_filtered_records, every request URI
\* holds the filter value with each '&' replaced by '&amp;' (and a value
\* without '&' unchanged).
C19_FilterEscaping ==
  call \in {"get_record", "get_id", "get_filtered_records"} =>
    \A i \in DOMAIN trace :
      trace[i].op = "get" =>
        ContainsSeq(trace[i].url, EscapeAmp(args.parameter))

\* The number of '?' in a uri
QuestionMarks(u) == Cardinality({i \in DOMAIN u : u[i] = "?"})

\* C20: get_record hands get_with_retry the collection uri followed by
\* filters[field][$eq]=value, joined with '?' when the uri has no query
\* parameters and with '&' otherwise, and returns the first aggregated
\* record, or None when the aggregated result is empty.
C20_GetRecord ==
  call = "get_record" =>
    /\ LET n == Len(args.table) + 3 + Len(self_url)
       IN /\ SubSeq(base_url, 1, n) =
               self_url \o <<"/", "v1", "/">> \o args.table
          /\ base_url[n + 1] = (IF QuestionMarks(args.table) = 0 THEN "?" ELSE "&")
          /\ QuestionMarks(base_url) = 1
          /\ base_url[n + 2] = FilterKey(args.label)
          /\ base_url[n + 3] = "="
          /\ SubSeq(base_url, n + 4, Len(base_url)) = EscapeAmp(args.parameter)
    /\ pc = "done" =>
         IF json_data = <<>> THEN returned = Absent
         ELSE returned = [kind |-> "record", value |-> json_data[1]]

C20_Witness ==
  /\ call = "get_record"
  /\ pc = "done"
  /\ QuestionMarks(args.table) = 1
  /\ Len(json_data) > 1
  /\ json_data[1] # json_data[Len(json_data)]
  /\ returned.kind = "record"

\* C21: get_filtered_records returns all the records that match the filter,
\* whatever their number and the server's page size: on a well-formed 200
\* answer the result is every record of every page of the match set.
C21_AllMatches ==
  (/\ call = "get_filtered_records" /\ pc = "done"
   /\ resp.kind = "response" /\ resp.status = 200 /\ resp.shape = "full") =>
    IF PagesData(1, EveryPage) = <<>> THEN returned = Absent
    ELSE returned = [kind |-> "value", value |-> PagesData(1, EveryPage)]

\* C22: get_filtered_records issues exactly one GET and no sleep, never
\* raises, and returns None when the match set is empty, when the status is
\* not 2xx and when the transport fails.
C22_SingleAttempt ==
  (call = "get_filtered_records" /\ pc = "done") =>
    /\ GetCount = 1
    /\ SleepCount = 0
    /\ returned.kind \in {"value", "None"}
    /\ ( \/ resp.kind = "exception"
         \/ resp.status \notin 200..299
         \/ (resp.parses /\ "data" \in DOMAIN resp.body /\ resp.body.data = <<>>) )
       => returned = Absent

C22_Witness ==
  /\ call = "get_filtered_records"
  /\ pc = "done"
  /\ resp.kind = "exception"
  /\ GetCount = 1
  /\ returned = Absent

\* C23: get_id requests the filtered uri get_record requests for the same
\* collection uri, field and value, and returns the documentId of the record
\* get_record would return, or None when there is no match or the first
\* match has no documentId.
C23_GetIdLikeGetRecord ==
  call = "get_id" =>
    /\ \A i \in DOMAIN trace :
         (trace[i].op = "get" /\ p = 1) =>
           trace[i].url =
             BaseUrl(self_url,
                     GetRecordUri(args.table, args.label, args.parameter))
    /\ pc = "done" =>
         LET r == GetRecord(json_data) IN
         IF r.found /\ "documentId" \in DOMAIN r.rec
         THEN returned = [kind |-> "value", value |-> r.rec.documentId]
         ELSE returned = Absent

-----------------------------------------------------------------------------
(* Properties of get_component_env_id, checked under SpecEnv *)

\* The positions of the envs entries named args.env (none when envs is
\* missing or null)
Matching ==
  IF "envs" \in DOMAIN args.component /\ args.component.envs.type = "list"
  THEN {i \in DOMAIN args.component.envs.value :
          args.component.envs.value[i].name = args.env}
  ELSE {}

\* C25: get_component_env_id never raises; it returns the documentId of the
\* first envs entry named env_name, and None when no entry matches and when
\* the envs list is missing, empty or null.
C25_EnvId ==
  (pc = "done" /\ call = "get_component_env_id") =>
    /\ returned.kind \in {"value", "None"}
    /\ Matching = {} => returned = Absent
    /\ Matching # {} =>
         LET first == args.component.envs.value[
                        CHOOSE i \in Matching : \A j \in Matching : i <= j]
         IN IF "documentId" \in DOMAIN first
            THEN returned = [kind |-> "value", value |-> first.documentId]
            ELSE returned = Absent

-----------------------------------------------------------------------------
(* Properties of the single-record reads, checked under SpecSingle *)

-----------------------------------------------------------------------------
(* Further properties of get_with_retry, checked under Spec *)

\* The pages whose answer carried meta.pagination with its page field
WithPageField == {n \in DOMAIN served : served[n] \in {"full", "noPageCount"}}

\* C29: a page p >= 2 that is fetched contributes its data array only if its
\* answer holds meta.pagination.page; a fetched page without it contributes
\* nothing, raises nothing, and the pages after it are still requested.
C29_LaterPageMetadata ==
  (pc = "done" /\ call = "get_with_retry") =>
    /\ returned.kind = "value"
    /\ visited = [n \in 1..page_count |-> n]
    /\ returned.value = PagesData(1, WithPageField)

C29_Witness ==
  /\ pc = "done"
  /\ call = "get_with_retry"
  /\ served = <<"full", "noPage", "full">>
  /\ server.perPage = 2
  /\ returned.value = <<Record(1, 1), Record(1, 2), Record(3, 1), Record(3, 2)>>

-----------------------------------------------------------------------------
(* Termination and the retry budget of get_with_retry, checked under SpecLive *)

\* C27: every get_with_retry call ends with a returned value, whatever the
\* server answers; it issues at most max_retries GETs for each page and, with
\* pageCount read from page 1, at most pageCount * max_retries GETs in all.
C27_Terminates ==
  /\ [](GetCount <= max_retries /\ gets <= p * max_retries)
  /\ [](pc = "done" => (returned.kind = "value" /\ gets <= page_count * max_retries))
  /\ <>(pc = "done")

C27_Witness ==
  /\ pc = "done"
  /\ page_count = 2
  /\ max_retries = 2
  /\ gets = 4

\* C28: the retry budget is per page: every page's fetch starts with no
\* completed attempt, may issue max_retries GETs whatever the earlier pages
\* issued, and its first retry waits 0.5 s again.
C28_BudgetPerPage ==
  /\ pc = "fetch" => attempt = GetCount
  /\ GetCount <= max_retries
  /\ Len(trace) >= 2 => trace[2] = SleepEvent(BackoffBaseMs)
  /\ gets >= GetCount

C28_Witness ==
  /\ p = 2
  /\ max_retries = 2
  /\ GetCount = 2
  /\ gets = 4
  /\ trace[2] = SleepEvent(BackoffBaseMs)

-----------------------------------------------------------------------------
(* A retry budget of zero or less, checked under SpecBudget *)

\* C30: with max_retries <= 0 the fetcher issues no GET and no sleep and
\* raises the retries-exhausted error at once, with no underlying cause;
\* get_with_retry then returns an empty list and
\* get_single_record_with_retry an empty record, the server never contacted.
C30_NoBudget ==
  max_retries <= 0 =>
    /\ gets = 0 /\ trace = <<>> /\ sent = <<>> /\ resp = NoResp
    /\ pc # "fetch" => (fetched.kind = "raised" /\ fetched.cause = None)
    /\ pc = "done" =>
         /\ call = "_request_json_with_retry" => returned.kind = "raise"
         /\ call = "get_with_retry" =>
              (returned.kind = "value" /\ returned.value = <<>>)
         /\ call = "get_single_record_with_retry" =>
              (returned.kind = "record" /\ returned.value = EmptyObj)

C30_Witness ==
  /\ pc = "done"
  /\ max_retries < 0
  /\ call = "get_with_retry"
  /\ server.perPage > 0
  /\ returned.value = <<>>

-----------------------------------------------------------------------------
(* The client across a sequence of calls, checked under SpecClient *)

\* C26: once constructed, the client is stateless: no call changes its base
\* url, credential, headers, timeout, collection uris or connection_ok flag,
\* and no fetched record is kept: every read call issues its own GETs and
\* returns what the answers of that call alone determine.
C26_Stateless ==
  /\ [][client' = client /\ self_url' = self_url]_vars
  /\ []((pc = "done" /\ call = "get_with_retry") =>
          /\ gets >= 1 /\ gets = GetCount + (IF Len(served) = 2 THEN 1 ELSE 0)
          /\ returned.value = PagesData(1, WithPageField))
  /\ []((pc = "done" /\ call = "get_single_record_with_retry") =>
          /\ gets = 1 /\ gets = GetCount
          /\ returned.value = IF served[1] = "object" THEN Record(1, 1) ELSE EmptyObj)

C26_Witness ==
  /\ pc = "done"
  /\ call = "get_with_retry"
  /\ calls.n = 2
  /\ calls.prev.call = "get_with_retry"
  /\ calls.prev.returned.value = <<Record(1, 1), Record(2, 1)>>
  /\ returned.value = <<Record(1, 1)>>
  /\ client.connection_ok = FALSE

=============================================================================
